---- MODULE Spec2Model ----
(***************************************************************************)
(* Model of weirb_hrpc: the per-request Context (dependency container and  *)
(* resource scope composer, src/weirb_hrpc/context.py) and the request     *)
(* handler adapter App._handler (src/weirb_hrpc/app.py).                   *)
(*                                                                         *)
(* Two specifications share the module:                                    *)
(*   Spec    one request's lifecycle: __aenter__, __call__, __aexit__,     *)
(*           one step per await of a scope participant;                    *)
(*   SpecDI  the dependency container: provide / require on one Context.   *)
(*                                                                         *)
(* Errors are objects with identity: an error is its index in errs, which  *)
(* holds its class (kind) and its __cause__.  Participants are indexed     *)
(* 0..n-1 as in self._contexts.                                            *)
(***************************************************************************)
EXTENDS Integers, Sequences, FiniteSets, TLC

\* ---- bounds --------------------------------------------------------------
MaxN == 3
MaxVal == 2
MaxCalls == 2
MaxPlugins == 2

\* ---- program constants ---------------------------------------------------
None == 0
ConfigPrefixLen == 7

Values == 1..MaxVal

VARIABLES
    n,              \* len(self._contexts)
    pc,             \* position of the lifecycle
    i,              \* __aenter__: index of the participant being entered
    ctx,            \* reversed loops: index of the participant being resumed
    error,          \* local `error` of __aenter__ / __aexit__
    current_error,  \* local `current_error`
    exc,            \* the error __aexit__ is called with (None: handler returned)
    ret,            \* what Context.__call__ returned
    errs,           \* the error objects created so far: class and __cause__
    pstate,         \* state of each participant (async generator)
    log,            \* the asend/athrow calls made so far, with their outcome
    routed,         \* what route lookup + routed method did inside _handler
    outcome,        \* how the lifecycle ended
    config,         \* self._config
    container,      \* self._container
    providers,      \* self._providers
    last,           \* the most recent container operation and its result
    invoked,        \* per key: constructor invocations since its last provide
    latest,         \* per non-config key: what the most recent provide registered
    plugins,        \* App.plugins: what each plugin declares
    provides,       \* App.provides
    app_contexts,   \* App.contexts: the plugins whose scope factory was collected
    activated,      \* the plugins whose activation hook has run, in order
    bpc,            \* position of App._active_plugins
    bi,             \* index of the plugin the current loop is at
    boot_error,     \* the DependencyError raised by App._active_plugins
    cs              \* the Contexts created by App.context()

lifeVars == <<n, pc, i, ctx, error, current_error, exc, ret, errs, pstate,
              log, routed, outcome>>
diVars == <<config, container, providers, last, invoked, latest>>
bootVars == <<plugins, provides, app_contexts, activated, bpc, bi, boot_error>>
isoVars == <<cs>>
vars == <<n, pc, i, ctx, error, current_error, exc, ret, errs, pstate,
          log, routed, outcome, config, container, providers, last,
          invoked, latest, plugins, provides, app_contexts, activated, bpc,
          bi, boot_error, cs>>

\* ---- error objects -------------------------------------------------------
\* classes a participant or the routed method may raise
ParticipantKinds == {"Exception", "BaseException"}
MethodKinds == {"HrpcError", "HttpError", "Exception", "BaseException"}

\* a new error object of class k, appended to errs; its id is Len(errs) + 1
NewError(es, k) == Append(es, [kind |-> k, cause |-> None])

\* error.__cause__ = c
SetCause(es, e, c) == [es EXCEPT ![e].cause = c]

\* ---- responses -----------------------------------------------------------
NoResponse == [tag |-> "none", val |-> None]
OkResponse(v) == [tag |-> "ok", val |-> v]
\* ErrorResponse(ex).to_http(): built from the error object ex
ErrorResponse(e) == [tag |-> "error", val |-> e]
\* ErrorResponse(InternalError()).to_http(): carries nothing of the error
InternalErrorResponse == [tag |-> "internal", val |-> None]

\* ---- the dependency container --------------------------------------------
\* capability keys are strings, modelled as sequences of characters
ConfigPrefix == <<"c", "o", "n", "f", "i", "g", ".">>

\* key.startswith(prefix)
startswith(key, prefix) ==
    /\ Len(key) >= Len(prefix)
    /\ SubSeq(key, 1, Len(prefix)) = prefix

\* key[from:]
SliceFrom(key, from) == SubSeq(key, from + 1, Len(key))

\* the keys and configuration fields the model uses
FieldX == <<"x">>
KeyConfigX == ConfigPrefix \o <<"x">>
KeyConfigY == ConfigPrefix \o <<"y">>
KeyDb == <<"d", "b">>
Keys == {KeyConfigX, KeyConfigY, KeyDb}

\* what a lazily provided constructor does when it is invoked
NoCtor == [does |-> "none", val |-> None]
Returning(v) == [does |-> "return", val |-> v]
Raising == [does |-> "raise", val |-> None]
Ctors == {Returning(v) : v \in Values} \cup {Raising}

\* results of require
Ok(v) == [tag |-> "ok", val |-> v]
DependencyError == [tag |-> "DependencyError", val |-> None]
ProviderError == [tag |-> "ProviderError", val |-> None]
NoResult == [tag |-> "none", val |-> None]

\* the provide call made immediately before a require, on the same key
NoProvide == [set |-> FALSE, lazy |-> FALSE, value |-> None, ctor |-> NoCtor]
Provided(lazy, value, c) ==
    [set |-> TRUE, lazy |-> lazy, value |-> value, ctor |-> c]

NoOp == [op |-> "none", key |-> << >>, arg |-> NoProvide,
         result |-> NoResult, called |-> "no", after |-> NoProvide]

\* ---- the lifecycle: initial state ----------------------------------------
NoRouted == [kind |-> "none", err |-> None, val |-> None]
Running == [via |-> "running", raised |-> None, value |-> NoResponse]

\* no constructor invoked, nothing provided
NotInvoked == [calls |-> 0, returned |-> 0]
NoneInvoked == [key \in Keys |-> NotInvoked]
NonConfigKeys == {key \in Keys : ~startswith(key, ConfigPrefix)}
NoneProvided == [key \in NonConfigKeys |-> NoProvide]

\* no plugin, nothing booting; no Context created by App.context()
NoBootError == [raised |-> FALSE, plugin |-> -1, missing |-> {}]

BootIdle ==
    /\ plugins = << >>
    /\ provides = {}
    /\ app_contexts = << >>
    /\ activated = << >>
    /\ bpc = "idle"
    /\ bi = 0
    /\ boot_error = NoBootError

IsoIdle == cs = << >>

DIIdle ==
    /\ config = << >>
    /\ container = << >>
    /\ providers = << >>
    /\ last = NoOp
    /\ invoked = NoneInvoked
    /\ latest = NoneProvided

Init ==
    /\ n \in 0..MaxN
    /\ pc = "enter"
    /\ i = 0
    /\ ctx = -1
    /\ error = None
    /\ current_error = None
    /\ exc = None
    /\ ret = NoResponse
    /\ errs = << >>
    /\ pstate = [p \in 0..(n - 1) |-> "created"]
    /\ log = << >>
    /\ routed = NoRouted
    /\ outcome = Running
    /\ DIIdle
    /\ BootIdle
    /\ IsoIdle

\* one call of a participant: which call, on which participant, the error
\* injected (None for asend), what the participant did, and the resulting
\* value of the local `error` (None when none was set)
Call(c, p, inj, did, out) ==
    [call |-> c, p |-> p, inj |-> inj, did |-> did, out |-> out]

\* ---- Context.__aenter__ --------------------------------------------------
\* what a participant may do on its first resume, ctx.asend(None)
EnterDids == {"yield_none", "yield_value", "stop", "raise"}

\* one iteration of the for loop of __aenter__ on participant i; on failure
\* the loop breaks and the unwind over contexts[:i] is set up
AenterStep(did, k) ==
    /\ pc = "enter"
    /\ i < n
    /\ LET es1 == CASE did = "stop" -> NewError(errs, "RuntimeError")
                    [] did = "yield_value" -> NewError(errs, "RuntimeError")
                    [] did = "raise" -> NewError(errs, k)
                    [] OTHER -> errs
           err == IF did = "yield_none" THEN None ELSE Len(es1)
       IN  /\ errs' = es1
           /\ error' = err
           /\ pstate' = [pstate EXCEPT ![i] =
                            IF did \in {"yield_none", "yield_value"}
                            THEN "suspended" ELSE "finished"]
           /\ log' = Append(log, Call("enter", i, None, did, err))
           /\ IF err = None
              THEN /\ i' = i + 1
                   /\ UNCHANGED <<pc, current_error, ctx>>
              ELSE /\ pc' = "unwind"
                   /\ current_error' = err
                   /\ ctx' = i - 1
                   /\ i' = i
    /\ UNCHANGED <<n, exc, ret, routed, outcome>>
    /\ UNCHANGED diVars
    /\ UNCHANGED <<bootVars, isoVars>>

\* the loop ended without an error: return self
AenterReturn ==
    /\ pc = "enter"
    /\ i = n
    /\ pc' = "active"
    /\ UNCHANGED <<n, i, ctx, error, current_error, exc, ret, errs, pstate,
                   log, routed, outcome>>
    /\ UNCHANGED diVars
    /\ UNCHANGED <<bootVars, isoVars>>

\* what a participant may do when resumed for its exit
ExitDids == {"reraise", "raise_new", "raise_old", "stop", "stop_none",
             "stop_value", "yield"}

\* the error objects a participant can raise again, other than the one
\* it was given
OldErrors == (1..Len(errs)) \ {current_error}

\* one iteration of the unwind loop of __aenter__: ctx.athrow(current_error)
AenterUnwindStep(did, k, old) ==
    /\ pc = "unwind"
    /\ ctx >= 0
    /\ pstate' = [pstate EXCEPT ![ctx] =
                     IF did = "yield" THEN "suspended" ELSE "finished"]
    /\ IF did = "stop"
       THEN \* a StopAsyncIteration without a value attribute: evaluating
            \* stop.value raises AttributeError out of the except clause
            /\ errs' = NewError(errs, "AttributeError")
            /\ outcome' = [via |-> "aenter", raised |-> Len(errs'),
                           value |-> NoResponse]
            /\ pc' = "done"
            /\ log' = Append(log, Call("athrow", ctx, current_error, did, None))
            /\ UNCHANGED <<ctx, error, current_error>>
       ELSE LET es1 == CASE did \in {"stop_value", "yield"} ->
                                NewError(errs, "RuntimeError")
                         [] did = "raise_new" -> NewError(errs, k)
                         [] OTHER -> errs
                err == CASE did = "reraise" -> current_error
                         [] did = "raise_old" -> old
                         [] did = "stop_none" -> error
                         [] OTHER -> Len(es1)
            IN  /\ error' = err
                /\ IF err # current_error
                   THEN /\ errs' = SetCause(es1, err, current_error)
                        /\ current_error' = err
                   ELSE /\ errs' = es1
                        /\ UNCHANGED current_error
                /\ log' = Append(log, Call("athrow", ctx, current_error, did, err))
                /\ ctx' = ctx - 1
                /\ UNCHANGED <<pc, outcome>>
    /\ UNCHANGED <<n, i, exc, ret, routed>>
    /\ UNCHANGED diVars
    /\ UNCHANGED <<bootVars, isoVars>>

\* the unwind loop ended, here without `raise current_error`: control falls
\* through to `return self`
AenterRaise_ReturnsSelf ==
    /\ pc = "unwind"
    /\ ctx < 0
    /\ pc' = "active"
    /\ UNCHANGED <<n, i, ctx, error, current_error, exc, ret, errs, pstate,
                   log, routed, outcome>>
    /\ UNCHANGED diVars
    /\ UNCHANGED <<bootVars, isoVars>>

\* the unwind loop ended: raise current_error
AenterRaise ==
    /\ pc = "unwind"
    /\ ctx < 0
    /\ outcome' = [via |-> "aenter", raised |-> current_error,
                   value |-> NoResponse]
    /\ pc' = "done"
    /\ UNCHANGED <<n, i, ctx, error, current_error, exc, ret, errs, pstate,
                   log, routed>>
    /\ UNCHANGED diVars
    /\ UNCHANGED <<bootVars, isoVars>>

\* ---- App._handler and Context.__call__ -----------------------------------
\* App._handler without its `except HrpcError` clause converting to a response:
\* a domain error escapes like any error that is re-raised
App_handler_DomainEscapes(kind, e, v) ==
    CASE kind = "ok" -> [raised |-> None, response |-> OkResponse(v)]
      [] kind = "HrpcError" -> [raised |-> e, response |-> NoResponse]
      [] kind = "HttpError" -> [raised |-> e, response |-> NoResponse]
      [] kind = "Exception" -> [raised |-> None, response |-> InternalErrorResponse]
      [] OTHER -> [raised |-> e, response |-> NoResponse]

\* App._handler without its `except HttpError: raise` clause: the transport's
\* error falls into `except Exception` and becomes an internal-error response
App_handler_NoHttpClause(kind, e, v) ==
    CASE kind = "ok" -> [raised |-> None, response |-> OkResponse(v)]
      [] kind = "HrpcError" -> [raised |-> None, response |-> ErrorResponse(e)]
      [] kind = "HttpError" -> [raised |-> None, response |-> InternalErrorResponse]
      [] kind = "Exception" -> [raised |-> None, response |-> InternalErrorResponse]
      [] OTHER -> [raised |-> e, response |-> NoResponse]

\* the try statement of App._handler: kind is what route lookup and the
\* routed method did ("ok": the method returned v; otherwise the class of
\* the error e raised); the result is the error _handler raises, if any, and
\* the response it returns otherwise
App_handler(kind, e, v) ==
    CASE kind = "ok" -> [raised |-> None, response |-> OkResponse(v)]
      [] kind = "HrpcError" -> [raised |-> None, response |-> ErrorResponse(e)]
      [] kind = "HttpError" -> [raised |-> e, response |-> NoResponse]
      [] kind = "Exception" -> [raised |-> None, response |-> InternalErrorResponse]
      [] OTHER -> [raised |-> e, response |-> NoResponse]

\* the body of `async with context`: await context(request), and the call
\* of __aexit__ with the error that escaped, up to its first await
ContextCall(kind, v) ==
    /\ pc = "active"
    /\ LET es1 == IF kind = "ok" THEN errs ELSE NewError(errs, kind)
           e == IF kind = "ok" THEN None ELSE Len(es1)
           h == App_handler(kind, e, v)
       IN  /\ errs' = es1
           /\ routed' = [kind |-> kind, err |-> e, val |-> v]
           /\ ret' = h.response
           /\ exc' = h.raised
           /\ error' = h.raised
           /\ current_error' = h.raised
    /\ ctx' = n - 1
    /\ pc' = "exit"
    /\ UNCHANGED <<n, i, pstate, log, outcome>>
    /\ UNCHANGED diVars
    /\ UNCHANGED <<bootVars, isoVars>>

\* ---- Context.__aexit__ ---------------------------------------------------
\* one iteration of the loop of __aexit__, here without the assignment
\* `current_error = error` of the `if current_error is None` branch
AexitStep_DropsAsendError(did, k, old) ==
    /\ pc = "exit"
    /\ ctx >= 0
    /\ did = "reraise" => current_error # None
    /\ pstate' = [pstate EXCEPT ![ctx] =
                     IF did = "yield" THEN "suspended" ELSE "finished"]
    /\ LET c == IF current_error # None THEN "athrow" ELSE "asend"
       IN  IF did = "stop"
           THEN /\ errs' = NewError(errs, "AttributeError")
                /\ outcome' = [via |-> "aexit", raised |-> Len(errs'),
                               value |-> NoResponse]
                /\ pc' = "done"
                /\ log' = Append(log, Call(c, ctx, current_error, did, None))
                /\ UNCHANGED <<ctx, error, current_error>>
           ELSE LET es1 == CASE did \in {"stop_value", "yield"} ->
                                    NewError(errs, "RuntimeError")
                             [] did = "raise_new" -> NewError(errs, k)
                             [] OTHER -> errs
                    err == CASE did = "reraise" -> current_error
                             [] did = "raise_old" -> old
                             [] did = "stop_none" -> None
                             [] OTHER -> Len(es1)
                IN  /\ error' = err
                    /\ IF err = None
                       THEN /\ current_error' = None
                            /\ errs' = es1
                       ELSE IF current_error = None
                       THEN /\ current_error' = None
                            /\ errs' = es1
                       ELSE IF err # current_error
                       THEN /\ errs' = SetCause(es1, err, current_error)
                            /\ current_error' = err
                       ELSE /\ errs' = es1
                            /\ UNCHANGED current_error
                    /\ log' = Append(log, Call(c, ctx, current_error, did, err))
                    /\ ctx' = ctx - 1
                    /\ UNCHANGED <<pc, outcome>>
    /\ UNCHANGED <<n, i, exc, ret, routed>>
    /\ UNCHANGED diVars
    /\ UNCHANGED <<bootVars, isoVars>>

\* one iteration of the loop of __aexit__ on participant ctx
AexitStep(did, k, old) ==
    /\ pc = "exit"
    /\ ctx >= 0
    /\ did = "reraise" => current_error # None
    /\ pstate' = [pstate EXCEPT ![ctx] =
                     IF did = "yield" THEN "suspended" ELSE "finished"]
    /\ LET c == IF current_error # None THEN "athrow" ELSE "asend"
       IN  IF did = "stop"
           THEN /\ errs' = NewError(errs, "AttributeError")
                /\ outcome' = [via |-> "aexit", raised |-> Len(errs'),
                               value |-> NoResponse]
                /\ pc' = "done"
                /\ log' = Append(log, Call(c, ctx, current_error, did, None))
                /\ UNCHANGED <<ctx, error, current_error>>
           ELSE LET es1 == CASE did \in {"stop_value", "yield"} ->
                                    NewError(errs, "RuntimeError")
                             [] did = "raise_new" -> NewError(errs, k)
                             [] OTHER -> errs
                    err == CASE did = "reraise" -> current_error
                             [] did = "raise_old" -> old
                             [] did = "stop_none" -> None
                             [] OTHER -> Len(es1)
                IN  /\ error' = err
                    /\ IF err = None
                       THEN /\ current_error' = None
                            /\ errs' = es1
                       ELSE IF current_error = None
                       THEN /\ current_error' = err
                            /\ errs' = es1
                       ELSE IF err # current_error
                       THEN /\ errs' = SetCause(es1, err, current_error)
                            /\ current_error' = err
                       ELSE /\ errs' = es1
                            /\ UNCHANGED current_error
                    /\ log' = Append(log, Call(c, ctx, current_error, did, err))
                    /\ ctx' = ctx - 1
                    /\ UNCHANGED <<pc, outcome>>
    /\ UNCHANGED <<n, i, exc, ret, routed>>
    /\ UNCHANGED diVars
    /\ UNCHANGED <<bootVars, isoVars>>

\* the end of __aexit__ (`if current_error is not exc: raise current_error`)
\* and of the `async with` statement that called it: `raise None` is a
\* TypeError; when __aexit__ returns None the error of the body, if any,
\* propagates, otherwise the lifecycle yields what __call__ returned
AexitFinish ==
    /\ pc = "exit"
    /\ ctx < 0
    /\ IF current_error # exc
       THEN IF current_error = None
            THEN /\ errs' = NewError(errs, "TypeError")
                 /\ outcome' = [via |-> "aexit", raised |-> Len(errs'),
                                value |-> NoResponse]
            ELSE /\ errs' = errs
                 /\ outcome' = [via |-> "aexit", raised |-> current_error,
                                value |-> NoResponse]
       ELSE /\ errs' = errs
            /\ outcome' = IF exc # None
                          THEN [via |-> "body", raised |-> exc,
                                value |-> NoResponse]
                          ELSE [via |-> "return", raised |-> None,
                                value |-> ret]
    /\ pc' = "done"
    /\ UNCHANGED <<n, i, ctx, error, current_error, exc, ret, pstate, log,
                   routed>>
    /\ UNCHANGED diVars
    /\ UNCHANGED <<bootVars, isoVars>>

Next ==
    \/ \E did \in EnterDids, k \in ParticipantKinds :
          /\ did # "raise" => k = "Exception"
          /\ AenterStep(did, k)
    \/ AenterReturn
    \/ \E did \in ExitDids \ {"raise_old"}, k \in ParticipantKinds :
          /\ did # "raise_new" => k = "Exception"
          /\ AenterUnwindStep(did, k, None)
    \/ \E old \in OldErrors : AenterUnwindStep("raise_old", "Exception", old)
    \/ AenterRaise
    \/ \E v \in Values : ContextCall("ok", v)
    \/ \E k \in MethodKinds : ContextCall(k, None)
    \/ \E did \in ExitDids \ {"raise_old"}, k \in ParticipantKinds :
          /\ did # "raise_new" => k = "Exception"
          /\ AexitStep(did, k, None)
    \/ \E old \in OldErrors : AexitStep("raise_old", "Exception", old)
    \/ AexitFinish

Spec == Init /\ [][Next]_vars

\* ---- Context.require and Context.provide ---------------------------------
\* Context.require consulting the lazy providers before the container
require_ProvidersFirst(key) ==
    IF startswith(key, ConfigPrefix)
    THEN LET config_key == SliceFrom(key, ConfigPrefixLen)
         IN  IF config_key \notin DOMAIN config
             THEN [result |-> DependencyError, container |-> container,
                   called |-> "no"]
             ELSE [result |-> Ok(config[config_key]), container |-> container,
                   called |-> "no"]
    ELSE IF key \in DOMAIN providers
    THEN IF providers[key].does = "raise"
         THEN [result |-> ProviderError, container |-> container,
               called |-> "raised"]
         ELSE [result |-> Ok(providers[key].val),
               container |-> (key :> providers[key].val) @@ container,
               called |-> "returned"]
    ELSE IF key \notin DOMAIN container
    THEN [result |-> DependencyError, container |-> container, called |-> "no"]
    ELSE [result |-> Ok(container[key]), container |-> container,
          called |-> "no"]

\* Context.require returning the constructor's value without storing it in
\* the container
requireIn_NoMemo(cfg, cont, prov, key) ==
    IF startswith(key, ConfigPrefix)
    THEN LET config_key == SliceFrom(key, ConfigPrefixLen)
         IN  IF config_key \notin DOMAIN cfg
             THEN [result |-> DependencyError, container |-> cont,
                   called |-> "no"]
             ELSE [result |-> Ok(cfg[config_key]), container |-> cont,
                   called |-> "no"]
    ELSE IF key \notin DOMAIN cont
    THEN IF key \notin DOMAIN prov
         THEN [result |-> DependencyError, container |-> cont, called |-> "no"]
         ELSE IF prov[key].does = "raise"
         THEN [result |-> ProviderError, container |-> cont,
               called |-> "raised"]
         ELSE [result |-> Ok(prov[key].val), container |-> cont,
               called |-> "returned"]
    ELSE [result |-> Ok(cont[key]), container |-> cont, called |-> "no"]

\* Context.require looking into the container before it looks at the
\* 'config.' prefix
requireIn_ContainerFirst(cfg, cont, prov, key) ==
    IF key \in DOMAIN cont
    THEN [result |-> Ok(cont[key]), container |-> cont, called |-> "no"]
    ELSE IF startswith(key, ConfigPrefix)
    THEN LET config_key == SliceFrom(key, ConfigPrefixLen)
         IN  IF config_key \notin DOMAIN cfg
             THEN [result |-> DependencyError, container |-> cont,
                   called |-> "no"]
             ELSE [result |-> Ok(cfg[config_key]), container |-> cont,
                   called |-> "no"]
    ELSE IF key \notin DOMAIN prov
    THEN [result |-> DependencyError, container |-> cont, called |-> "no"]
    ELSE IF prov[key].does = "raise"
    THEN [result |-> ProviderError, container |-> cont, called |-> "raised"]
    ELSE [result |-> Ok(prov[key].val),
          container |-> (key :> prov[key].val) @@ cont,
          called |-> "returned"]

\* Context.require(key) on a Context with configuration cfg, container cont
\* and lazy providers prov: the result, the container afterwards, and
\* whether the provider was invoked ("no", "returned", "raised")
requireIn(cfg, cont, prov, key) ==
    IF startswith(key, ConfigPrefix)
    THEN LET config_key == SliceFrom(key, ConfigPrefixLen)
         IN  IF config_key \notin DOMAIN cfg
             THEN [result |-> DependencyError, container |-> cont,
                   called |-> "no"]
             ELSE [result |-> Ok(cfg[config_key]), container |-> cont,
                   called |-> "no"]
    ELSE IF key \notin DOMAIN cont
    THEN IF key \notin DOMAIN prov
         THEN [result |-> DependencyError, container |-> cont, called |-> "no"]
         ELSE IF prov[key].does = "raise"
         THEN [result |-> ProviderError, container |-> cont,
               called |-> "raised"]
         ELSE [result |-> Ok(prov[key].val),
               container |-> (key :> prov[key].val) @@ cont,
               called |-> "returned"]
    ELSE [result |-> Ok(cont[key]), container |-> cont, called |-> "no"]

\* Context.require(key) on the Context of this model
require(key) == requireIn(config, container, providers, key)

\* one more invocation of the constructor of a key
CountCall(inv, called) ==
    IF called = "no"
    THEN inv
    ELSE [calls |-> inv.calls + 1,
          returned |-> inv.returned + (IF called = "returned" THEN 1 ELSE 0)]

Require(key) ==
    /\ LET r == require(key)
       IN  /\ r.called # "no" => invoked[key].calls < MaxCalls
           /\ container' = r.container
           /\ invoked' = [invoked EXCEPT ![key] = CountCall(@, r.called)]
           /\ last' = [op |-> "require", key |-> key, arg |-> NoProvide,
                       result |-> r.result, called |-> r.called,
                       after |-> IF last.op = "provide" /\ last.key = key
                                 THEN last.arg ELSE NoProvide]
    /\ UNCHANGED <<config, providers, latest>>
    /\ UNCHANGED lifeVars
    /\ UNCHANGED <<bootVars, isoVars>>

\* Context.provide(key, value, lazy=lazy); a lazy value is a constructor
Provide(key, value, c, lazy) ==
    /\ IF lazy
       THEN /\ providers' = (key :> c) @@ providers
            /\ UNCHANGED container
       ELSE /\ container' = (key :> value) @@ container
            /\ UNCHANGED providers
    /\ last' = [op |-> "provide", key |-> key,
                arg |-> Provided(lazy, value, c),
                result |-> NoResult, called |-> "no", after |-> NoProvide]
    /\ invoked' = [invoked EXCEPT ![key] = NotInvoked]
    /\ latest' = IF key \in NonConfigKeys
                 THEN [latest EXCEPT ![key] = Provided(lazy, value, c)]
                 ELSE latest
    /\ UNCHANGED config
    /\ UNCHANGED lifeVars
    /\ UNCHANGED <<bootVars, isoVars>>

\* a Context that is not being entered: Context.__init__
LifeIdle ==
    /\ n = 0
    /\ pc = "enter"
    /\ i = 0
    /\ ctx = -1
    /\ error = None
    /\ current_error = None
    /\ exc = None
    /\ ret = NoResponse
    /\ errs = << >>
    /\ pstate = << >>
    /\ log = << >>
    /\ routed = NoRouted
    /\ outcome = Running

InitDI ==
    /\ LifeIdle
    /\ BootIdle
    /\ IsoIdle
    /\ \E F \in SUBSET {FieldX} : config \in [F -> Values]
    /\ container = << >>
    /\ providers = << >>
    /\ last = NoOp
    /\ invoked = NoneInvoked
    /\ latest = NoneProvided

NextDI ==
    \/ \E key \in Keys, v \in Values : Provide(key, v, NoCtor, FALSE)
    \/ \E key \in Keys, c \in Ctors : Provide(key, None, c, TRUE)
    \/ \E key \in Keys : Require(key)

SpecDI == InitDI /\ [][NextDI]_vars

\* ---- App._active_plugins ------------------------------------------------
\* the keys plugins declare: the empty string, 'cache', and 'config.x'
KeyEmpty == << >>
KeyCache == <<"c", "a", "c", "h", "e">>

\* an optional attribute of a plugin (hasattr) holding a list of keys
NoAttr == [has |-> FALSE, keys |-> {}]
Attr(S) == [has |-> TRUE, keys |-> S]

PluginProvides == {NoAttr, Attr({KeyCache}), Attr({KeyEmpty})}
PluginRequires == {NoAttr, Attr({KeyCache}), Attr({KeyEmpty}),
                   Attr({KeyConfigX}), Attr({KeyCache, KeyConfigX}),
                   Attr({KeyEmpty, KeyCache})}
Plugins == [provides : PluginProvides, requires : PluginRequires,
            context : BOOLEAN]

\* ', '.join(S): the keys of S separated by ', ' (a set is iterated in an
\* arbitrary order; only the text's emptiness is used)
Separator == <<",", " ">>

RECURSIVE join(_)
join(S) ==
    IF S = {}
    THEN << >>
    ELSE LET key == CHOOSE x \in S : TRUE
         IN  IF S \ {key} = {}
             THEN key
             ELSE key \o Separator \o join(S \ {key})

\* {f'config.{key}' for key in fields(self.config)}
ConfigKeys(cfg) == {ConfigPrefix \o f : f \in DOMAIN cfg}

\* App._active_plugins is entered: contexts, decorators and provides are set
InitBoot ==
    /\ LifeIdle
    /\ IsoIdle
    /\ container = << >>
    /\ providers = << >>
    /\ last = NoOp
    /\ invoked = NoneInvoked
    /\ latest = NoneProvided
    /\ \E F \in SUBSET {FieldX} : config = [f \in F |-> 1]
    /\ \E len \in 0..MaxPlugins : plugins \in [1..len -> Plugins]
    /\ provides = ConfigKeys(config)
    /\ app_contexts = << >>
    /\ activated = << >>
    /\ bpc = "activate"
    /\ bi = 0
    /\ boot_error = NoBootError

\* first loop on plugin bi, here with the check of its requires moved into
\* the same iteration
BootActivate_ChecksRequires ==
    /\ bpc = "activate"
    /\ bi < Len(plugins)
    /\ LET plugin == plugins[bi + 1]
           provided == IF plugin.provides.has
                       THEN provides \cup plugin.provides.keys
                       ELSE provides
           missing == plugin.requires.keys \ provided
       IN  /\ activated' = Append(activated, bi)
           /\ app_contexts' = IF plugin.context
                              THEN Append(app_contexts, bi)
                              ELSE app_contexts
           /\ provides' = provided
           /\ IF plugin.requires.has /\ Len(join(missing)) > 0
              THEN /\ boot_error' = [raised |-> TRUE, plugin |-> bi,
                                     missing |-> missing]
                   /\ bpc' = "failed"
                   /\ UNCHANGED bi
              ELSE /\ bi' = bi + 1
                   /\ UNCHANGED <<bpc, boot_error>>
    /\ UNCHANGED <<plugins, config, container, providers, last, invoked,
                   latest>>
    /\ UNCHANGED <<lifeVars, isoVars>>

\* one iteration of the first loop: plugin.active(self), then its context
\* and its provides are collected
BootActivate ==
    /\ bpc = "activate"
    /\ bi < Len(plugins)
    /\ LET plugin == plugins[bi + 1]
       IN  /\ activated' = Append(activated, bi)
           /\ app_contexts' = IF plugin.context
                              THEN Append(app_contexts, bi)
                              ELSE app_contexts
           /\ provides' = IF plugin.provides.has
                          THEN provides \cup plugin.provides.keys
                          ELSE provides
    /\ bi' = bi + 1
    /\ UNCHANGED <<plugins, bpc, boot_error>>
    /\ UNCHANGED diVars
    /\ UNCHANGED <<lifeVars, isoVars>>

\* the first loop is over, the second begins
BootActivated ==
    /\ bpc = "activate"
    /\ bi = Len(plugins)
    /\ bpc' = "check"
    /\ bi' = 0
    /\ UNCHANGED <<plugins, provides, app_contexts, activated, boot_error>>
    /\ UNCHANGED diVars
    /\ UNCHANGED <<lifeVars, isoVars>>

\* one iteration of the second loop: the requires of plugin bi
BootCheck ==
    /\ bpc = "check"
    /\ bi < Len(plugins)
    /\ LET plugin == plugins[bi + 1]
           requires == plugin.requires.keys
           missing == join(requires \ provides)
       IN  IF plugin.requires.has /\ Len(missing) > 0
           THEN /\ boot_error' = [raised |-> TRUE, plugin |-> bi,
                                  missing |-> requires \ provides]
                /\ bpc' = "failed"
                /\ UNCHANGED bi
           ELSE /\ bi' = bi + 1
                /\ UNCHANGED <<bpc, boot_error>>
    /\ UNCHANGED <<plugins, provides, app_contexts, activated>>
    /\ UNCHANGED diVars
    /\ UNCHANGED <<lifeVars, isoVars>>

\* the second loop is over: _active_plugins returns
BootChecked ==
    /\ bpc = "check"
    /\ bi = Len(plugins)
    /\ bpc' = "booted"
    /\ UNCHANGED <<plugins, provides, app_contexts, activated, bi, boot_error>>
    /\ UNCHANGED diVars
    /\ UNCHANGED <<lifeVars, isoVars>>

NextBoot ==
    \/ BootActivate
    \/ BootActivated
    \/ BootCheck
    \/ BootChecked

SpecBoot == InitBoot /\ [][NextBoot]_vars

\* ---- App.context: the Contexts of concurrently served requests ------------
\* The objects are modelled with a heap: cs.dicts holds the dict objects,
\* cs.lists the list objects, and a Context holds references (indices) to
\* them, as the attributes _container, _providers and _contexts do. The
\* attribute _config of every Context refers to the one dict of the App,
\* the variable config.
Requests == {"r1", "r2"}

\* an App that has booted with one plugin, which contributes a participant
InitIso ==
    /\ LifeIdle
    /\ container = << >>
    /\ providers = << >>
    /\ last = NoOp
    /\ invoked = NoneInvoked
    /\ latest = NoneProvided
    /\ \E F \in SUBSET {FieldX} : config \in [F -> Values]
    /\ plugins = << [provides |-> NoAttr, requires |-> NoAttr,
                     context |-> TRUE] >>
    /\ app_contexts = << 0 >>
    /\ activated = << 0 >>
    /\ provides = ConfigKeys(config)
    /\ bpc = "booted"
    /\ bi = Len(plugins)
    /\ boot_error = NoBootError
    /\ cs = [dicts |-> << >>, lists |-> << >>, ctxs |-> << >>]

\* App.context() with a Context.__init__ that does not create its own
\* container but takes the dict of a Context made before, as a dict shared
\* through the class would be
AppContext_SharedContainer(r) ==
    /\ r \notin DOMAIN cs.ctxs
    /\ LET shared == IF DOMAIN cs.ctxs = {}
                     THEN Len(cs.dicts) + 1
                     ELSE cs.ctxs[CHOOSE x \in DOMAIN cs.ctxs : TRUE].container
       IN  cs' = [dicts |-> cs.dicts \o << << >>, << >> >>,
                  lists |-> Append(cs.lists,
                                   [j \in 1..Len(app_contexts) |-> "created"]),
                  ctxs |-> (r :> [container |-> shared,
                                  providers |-> Len(cs.dicts) + 2,
                                  contexts |-> Len(cs.lists) + 1]) @@ cs.ctxs]
    /\ UNCHANGED <<lifeVars, diVars, bootVars>>

\* App.context() for request r: Context.__init__ makes a new list of new
\* participants from the App's factories and two new empty dicts
AppContext(r) ==
    /\ r \notin DOMAIN cs.ctxs
    /\ cs' = [dicts |-> cs.dicts \o << << >>, << >> >>,
              lists |-> Append(cs.lists,
                               [j \in 1..Len(app_contexts) |-> "created"]),
              ctxs |-> (r :> [container |-> Len(cs.dicts) + 1,
                              providers |-> Len(cs.dicts) + 2,
                              contexts |-> Len(cs.lists) + 1]) @@ cs.ctxs]
    /\ UNCHANGED <<lifeVars, diVars, bootVars>>

\* Context.provide on the Context of request r
ProvideOn(r, key, value, c, lazy) ==
    /\ r \in DOMAIN cs.ctxs
    /\ LET self == cs.ctxs[r]
       IN  cs' = [cs EXCEPT
                    !.dicts = IF lazy
                              THEN [@ EXCEPT ![self.providers] = (key :> c) @@ @]
                              ELSE [@ EXCEPT ![self.container] = (key :> value) @@ @]]
    /\ UNCHANGED <<lifeVars, diVars, bootVars>>

\* Context.require on the Context of request r
RequireOn(r, key) ==
    /\ r \in DOMAIN cs.ctxs
    /\ LET self == cs.ctxs[r]
           res == requireIn(config, cs.dicts[self.container],
                            cs.dicts[self.providers], key)
       IN  cs' = [cs EXCEPT !.dicts[self.container] = res.container]
    /\ UNCHANGED <<lifeVars, diVars, bootVars>>

\* the participants of list l that are in state st
InState(l, st) == {j \in 1..Len(l) : l[j] = st}

Max(S) == CHOOSE x \in S : \A y \in S : y <= x

Min(S) == CHOOSE x \in S : \A y \in S : x <= y

\* one iteration of __aenter__ of the Context of request r: the next
\* participant is resumed and suspends
EnterOn(r) ==
    /\ r \in DOMAIN cs.ctxs
    /\ LET self == cs.ctxs[r]
           l == cs.lists[self.contexts]
       IN  /\ InState(l, "created") # {}
           /\ InState(l, "finished") = {}
           /\ cs' = [cs EXCEPT
                       !.lists[self.contexts][Min(InState(l, "created"))] =
                           "suspended"]
    /\ UNCHANGED <<lifeVars, diVars, bootVars>>

\* one iteration of __aexit__ of the Context of request r: the last
\* participant still suspended is resumed and finishes
ExitOn(r) ==
    /\ r \in DOMAIN cs.ctxs
    /\ LET self == cs.ctxs[r]
           l == cs.lists[self.contexts]
       IN  /\ InState(l, "created") = {}
           /\ InState(l, "suspended") # {}
           /\ cs' = [cs EXCEPT
                       !.lists[self.contexts][Max(InState(l, "suspended"))] =
                           "finished"]
    /\ UNCHANGED <<lifeVars, diVars, bootVars>>

NextIso ==
    \/ \E r \in Requests : AppContext(r)
    \/ \E r \in Requests, v \in Values : ProvideOn(r, KeyDb, v, NoCtor, FALSE)
    \/ \E r \in Requests, c \in Ctors : ProvideOn(r, KeyDb, None, c, TRUE)
    \/ \E r \in Requests, key \in {KeyDb, KeyConfigX} : RequireOn(r, key)
    \/ \E r \in Requests : EnterOn(r)
    \/ \E r \in Requests : ExitOn(r)

SpecIso == InitIso /\ [][NextIso]_vars

\* ==== properties ==========================================================
\* the first resumes made by __aenter__, in the order they were made
EnterCalls == SelectSeq(log, LAMBDA c : c.call = "enter")

\* the exit resumes (athrow / asend of the unwind and of __aexit__)
ExitCalls == SelectSeq(log, LAMBDA c : c.call # "enter")

\* the participants whose enter succeeded: they suspended with None
EnteredOk == SelectSeq(log, LAMBDA c : c.call = "enter" /\ c.did = "yield_none")

\* some participant's enter failed
EnterFailed == Len(EnterCalls) > Len(EnteredOk)

\* the last call made on a participant
LastCall == log[Len(log)]

\* the errors reached from e by following __cause__, nearest first
RECURSIVE ChainFrom(_, _)
ChainFrom(e, seen) ==
    LET c == errs[e].cause
    IN  IF c = None \/ c \in seen
        THEN << >>
        ELSE <<c>> \o ChainFrom(c, seen \cup {c})

CauseChain(e) == ChainFrom(e, {e})

Range(f) == {f[x] : x \in DOMAIN f}

\* the current errors that a participant replaced by raising another error
\* (or by violating the protocol) when it was resumed with them, in order
Superseded ==
    LET s == SelectSeq(log, LAMBDA c : /\ c.call = "athrow"
                                       /\ c.out # None
                                       /\ c.out # c.inj)
    IN  [j \in 1..Len(s) |-> s[j].inj]

\* the internal-defect errors created for protocol violations: a participant
\* that finished without suspending during enter, suspended again during
\* exit, or terminated with a non-empty result
Violations ==
    {log[j].out : j \in {x \in 1..Len(log) :
        \/ log[x].call = "enter" /\ log[x].did = "stop"
        \/ log[x].call # "enter" /\ log[x].did \in {"yield", "stop_value"}}}

\* C1: participants are entered in the order of the contexts list, and when
\* the lifecycle has ended the exit resumes have visited the participants
\* whose enter succeeded in the exact reverse of that order.
C1_EnterOrderExitReverse ==
    /\ \A j \in 1..Len(EnterCalls) : EnterCalls[j].p = j - 1
    /\ pc = "done" =>
          /\ Len(ExitCalls) = Len(EnteredOk)
          /\ \A j \in 1..Len(ExitCalls) :
                ExitCalls[j].p = EnteredOk[Len(EnteredOk) - j + 1].p

\* C2: if the handler raised after a successful enter, then when the
\* lifecycle has ended every participant has received exactly one exit
\* call, an athrow, in reverse order.
C2_HandlerErrorAllExitWithError ==
    (pc = "done" /\ exc # None) =>
        /\ Len(ExitCalls) = n
        /\ \A j \in 1..Len(ExitCalls) :
              /\ ExitCalls[j].call = "athrow"
              /\ ExitCalls[j].p = n - j

\* C3: if participant i's enter failed, then when __aenter__ has ended
\* exactly participants i-1 down to 0 have received one athrow each and
\* no participant after i was entered; and an error newly raised in the
\* unwind is the current error with the previous one as its __cause__.
C3_EnterFailureUnwind ==
    /\ (pc = "done" /\ EnterFailed) =>
          /\ Len(EnterCalls) = i + 1
          /\ Len(ExitCalls) = i
          /\ \A j \in 1..Len(ExitCalls) :
                /\ ExitCalls[j].call = "athrow"
                /\ ExitCalls[j].p = i - j
    /\ (pc = "unwind" /\ Len(ExitCalls) > 0 /\ LastCall.out # LastCall.inj) =>
          /\ current_error = LastCall.out
          /\ errs[LastCall.out].cause = LastCall.inj

\* C4: if enter succeeded, the handler returned a value and every
\* participant terminated when resumed normally, the lifecycle raises
\* nothing and yields the handler's value.
C4_CleanLifecycleYieldsResult ==
    ( /\ pc = "done"
      /\ ~EnterFailed
      /\ routed.kind # "none"
      /\ exc = None
      /\ \A j \in 1..Len(ExitCalls) :
            /\ ExitCalls[j].call = "asend"
            /\ ExitCalls[j].did \in {"stop", "stop_none"} )
    => /\ outcome.raised = None
       /\ outcome.value = ret

\* C5: a participant resumed with the current error E that raises another
\* error E2 makes E2 current with E2.__cause__ = E; one that re-raises E
\* leaves E current and its cause untouched; and the error finally reported
\* has through its cause chain every superseded error, latest first.
C5_StepSupersede ==
    (Len(log') = Len(log) + 1 /\ log'[Len(log')].call = "athrow") =>
        LET c == log'[Len(log')]
        IN  /\ (c.out # None /\ c.out # c.inj) =>
                  /\ current_error' = c.out
                  /\ errs'[c.out].cause = c.inj
            /\ (c.did = "reraise") =>
                  /\ current_error' = c.inj
                  /\ errs'[c.inj].cause = errs[c.inj].cause

C5_ReportedChain ==
    (pc = "done" /\ outcome.raised # None) =>
        LET chain == CauseChain(outcome.raised)
            k == Len(Superseded)
        IN  /\ Len(chain) >= k
            /\ \A j \in 1..k : chain[j] = Superseded[k - j + 1]

C5_SupersedeAndChain == [][C5_StepSupersede]_vars /\ []C5_ReportedChain

\* C6: after the full reverse pass of __aexit__ the lifecycle ends in an
\* error exactly when a current error remains, and that error is the
\* current error.
C6_ExitRaisesCurrentError ==
    (pc = "done" /\ outcome.via \in {"aexit", "body", "return"} /\ ctx < 0) =>
        /\ (outcome.raised # None) <=> (current_error # None)
        /\ outcome.raised = current_error

\* C7: when a participant violated the protocol the lifecycle ends by raising
\* an error, and the RuntimeError created for the violation is that error or
\* is in its cause chain.
C7_ViolationSurfaced ==
    pc = "done" =>
        \A r \in Violations :
            /\ outcome.raised # None
            /\ r \in {outcome.raised} \cup Range(CauseChain(outcome.raised))

\* the lifecycle is past Context.__call__
Called == routed.kind # "none"

C10_ProvideThenRequire ==
    (last.op = "require" /\ last.after.set /\ ~last.after.lazy) =>
        last.result = Ok(last.after.value)

\* C10 (amended): require(key) right after an eager provide(key, value)
\* returns value, for every key that does not start with 'config.'.
C10_ProvideThenRequireNonConfig ==
    ( /\ last.op = "require"
      /\ last.after.set
      /\ ~last.after.lazy
      /\ ~startswith(last.key, ConfigPrefix) ) =>
        last.result = Ok(last.after.value)

\* require('db') right after an eager provide('db', v), while a lazy
\* provider for 'db' is registered as well
C10_Witness ==
    /\ last.op = "require"
    /\ last.key = KeyDb
    /\ last.after.set
    /\ ~last.after.lazy
    /\ KeyDb \in DOMAIN providers
    /\ last.result = Ok(last.after.value)

\* what invoking a constructor gives to require
CtorResult(c) == IF c.does = "raise" THEN ProviderError ELSE Ok(c.val)

\* C11 (as claimed): between two provides of a key its constructor is
\* invoked at most once in total, whether it returns or raises, and a
\* require that returns yields the memoized value.
C11_CtorInvokedAtMostOnce ==
    /\ \A key \in Keys : invoked[key].calls <= 1
    /\ (last.op = "require" /\ last.result.tag = "ok"
            /\ ~startswith(last.key, ConfigPrefix)) =>
          /\ last.key \in DOMAIN container
          /\ container[last.key] = last.result.val

\* C11 (amended): between two provides of a key at most one invocation of
\* its constructor returns; its value is then memoized, the constructor is
\* not invoked again and every require that returns yields that value.
C11_Memoized ==
    /\ \A key \in Keys :
          /\ invoked[key].returned <= 1
          /\ invoked[key].returned = 1 =>
                /\ key \in DOMAIN container
                /\ latest[key].set /\ latest[key].lazy
                /\ container[key] = latest[key].ctor.val
    /\ (last.op = "require" /\ last.result.tag = "ok"
            /\ ~startswith(last.key, ConfigPrefix)) =>
          /\ last.key \in DOMAIN container
          /\ container[last.key] = last.result.val

C11_NotInvokedAgain ==
    \A key \in Keys :
        invoked[key].returned = 1 =>
            \/ invoked'[key].calls = invoked[key].calls
            \/ invoked'[key] = NotInvoked

C11_CtorReturnsAtMostOnce == []C11_Memoized /\ [][C11_NotInvokedAgain]_vars

\* a require that found the value memoized by an earlier invocation
C11_Witness ==
    /\ last.op = "require"
    /\ last.key = KeyDb
    /\ last.called = "no"
    /\ invoked[KeyDb] = [calls |-> 1, returned |-> 1]
    /\ last.result = Ok(latest[KeyDb].ctor.val)

\* C12: a require of a non-config key returns what the most recent provide
\* of that key registered: the value if it was eager, the result of its
\* constructor if it was lazy.
C12_LastWriteWins ==
    ( /\ last.op = "require"
      /\ last.key \in NonConfigKeys
      /\ latest[last.key].set ) =>
        last.result = IF latest[last.key].lazy
                      THEN CtorResult(latest[last.key].ctor)
                      ELSE Ok(latest[last.key].value)

\* C13: require('config.x') returns the snapshot's value of field x when x
\* is a configuration field and fails with DependencyError when it is not,
\* whatever was provided, and changes neither container, providers nor
\* snapshot.
C13_ConfigResult ==
    last.op = "require" =>
        /\ last.key = KeyConfigX =>
              last.result = IF FieldX \in DOMAIN config
                            THEN Ok(config[FieldX]) ELSE DependencyError
        /\ last.key = KeyConfigY => last.result = DependencyError

C13_ConfigRequireIsPure ==
    (last' # last /\ last'.op = "require"
         /\ last'.key \in {KeyConfigX, KeyConfigY}) =>
        UNCHANGED <<config, container, providers>>

C13_ConfigOnlyFromSnapshot ==
    []C13_ConfigResult /\ [][C13_ConfigRequireIsPure]_vars
        /\ [][config' = config]_vars

\* require('config.y') fails although a value was provided under 'config.y'
C13_Witness ==
    /\ last.op = "require"
    /\ last.key = KeyConfigY
    /\ KeyConfigY \in DOMAIN container
    /\ KeyConfigY \in DOMAIN providers
    /\ last.result = DependencyError

\* the keys every plugin may rely on: the configuration fields and what
\* any plugin of the list provides
AllProvided ==
    ConfigKeys(config) \cup
    UNION {plugins[j].provides.keys : j \in 1..Len(plugins)}

\* the plugins (by index) that require a key nobody provides
Unsatisfied ==
    {j - 1 : j \in {x \in 1..Len(plugins) :
        /\ plugins[x].requires.has
        /\ plugins[x].requires.keys \ AllProvided # {}}}

BootEnded == bpc \in {"booted", "failed"}

\* C14: boot fails with DependencyError exactly when some plugin requires a
\* key that is neither a 'config.<field>' key nor provided by any plugin,
\* and the error names the first such plugin and its missing keys.
C14_BootFailsIffMissing ==
    BootEnded =>
        /\ (bpc = "failed") <=> (Unsatisfied # {})
        /\ bpc = "failed" =>
              /\ boot_error.raised
              /\ \A j \in Unsatisfied : boot_error.plugin <= j
              /\ boot_error.plugin \in Unsatisfied
              /\ boot_error.missing =
                    plugins[boot_error.plugin + 1].requires.keys \ AllProvided

\* C17: no requires list is checked before every plugin was activated and
\* every provides collected, so that validation passes exactly when every
\* requires list is covered by what all the plugins provide, wherever in
\* the list the provider stands.
C17_ValidationAfterAllActivations ==
    /\ bpc \in {"check", "booted", "failed"} =>
          /\ Len(activated) = Len(plugins)
          /\ \A j \in 1..Len(activated) : activated[j] = j - 1
          /\ provides = AllProvided
    /\ bpc = "booted" =>
          \A j \in 1..Len(plugins) :
              plugins[j].requires.has =>
                  join(plugins[j].requires.keys \ AllProvided) = << >>
    /\ bpc = "failed" =>
          join(plugins[boot_error.plugin + 1].requires.keys \ AllProvided)
              # << >>

\* boot succeeded with a plugin that requires 'cache' listed before the
\* only plugin that provides it
C17_Witness ==
    /\ bpc = "booted"
    /\ Len(plugins) = 2
    /\ plugins[1].requires.has
    /\ KeyCache \in plugins[1].requires.keys
    /\ KeyCache \notin plugins[1].provides.keys
    /\ KeyCache \in plugins[2].provides.keys

\* the number of exit resumes participant p has received
ExitCount(p) ==
    Cardinality({x \in 1..Len(ExitCalls) : ExitCalls[x].p = p})

\* C15: once enter has succeeded, when the lifecycle has ended __aexit__ has
\* resumed every one of the n participants exactly once, participant 0
\* last, whatever the handler did and whatever the participants raised.
C15_FullExitPass ==
    (pc = "done" /\ ~EnterFailed /\ Len(EnterCalls) = n) =>
        /\ Len(ExitCalls) = n
        /\ \A p \in 0..(n - 1) : ExitCount(p) = 1
        /\ n > 0 => ExitCalls[Len(ExitCalls)].p = 0

\* a participant that raised an error of its own when resumed
Raised(c) == c.did \in {"raise_new", "raise_old"}

\* C18: in __aexit__, a participant resumed with asend that raises E makes
\* E the current error and the composer gives E no cause (its __cause__ is
\* what it was); the next participant resumed is the one before it and is
\* resumed with athrow(E).
C18_StepAsendRaise ==
    (Len(log') = Len(log) + 1 /\ log'[Len(log')].call = "asend"
        /\ Raised(log'[Len(log')])) =>
        LET c == log'[Len(log')]
        IN  /\ current_error = None
            /\ current_error' = c.out
            /\ errs'[c.out].cause =
                  IF c.out \in DOMAIN errs THEN errs[c.out].cause ELSE None
            /\ ctx' = c.p - 1

C18_NextGetsError ==
    \A j \in 1..(Len(log) - 1) :
        (log[j].call = "asend" /\ Raised(log[j])) =>
            /\ log[j + 1].call = "athrow"
            /\ log[j + 1].inj = log[j].out
            /\ log[j + 1].p = log[j].p - 1

C18_AsendErrorBecomesCurrent ==
    [][C18_StepAsendRaise]_vars /\ []C18_NextGetsError

\* a participant resumed normally raised a new error and the participant
\* before it was then resumed
C18_Witness ==
    \E j \in 1..(Len(log) - 1) :
        /\ log[j].call = "asend"
        /\ log[j].did = "raise_new"
        /\ log[j + 1].call = "athrow"
        /\ log[j + 1].inj = log[j].out

\* C19: __aenter__ returns (the Context is active and the handler may run)
\* only if every participant suspended with None on its first resume; after
\* a failed enter __aenter__ ends by raising an error and the handler is
\* never run, even when every unwound participant terminated cleanly.
C19_ReturnsOnlyIfAllEntered ==
    /\ (pc = "active" \/ Called) =>
          /\ Len(EnterCalls) = n
          /\ \A j \in 1..n : EnterCalls[j].did = "yield_none"
    /\ (pc = "done" /\ EnterFailed) =>
          /\ outcome.via = "aenter"
          /\ outcome.raised # None
          /\ ~Called

\* an enter failed, every participant unwound terminated with an empty
\* result, and __aenter__ has ended
C19_Witness ==
    /\ pc = "done"
    /\ EnterFailed
    /\ Len(ExitCalls) > 0
    /\ \A j \in 1..Len(ExitCalls) : ExitCalls[j].did = "stop_none"
    /\ outcome.raised # None

\* C20: when the lifecycle has ended, every participant that suspended on
\* its first resume, whatever it yielded, has been resumed exactly once
\* more.
C20_SuspendedResumedOnce ==
    pc = "done" =>
        \A j \in 1..Len(EnterCalls) :
            EnterCalls[j].did \in {"yield_none", "yield_value"} =>
                ExitCount(EnterCalls[j].p) = 1

\* what the Context of request r holds: its container, its lazy providers
\* and the states of its participants
Holds(state, r) ==
    [container |-> state.dicts[state.ctxs[r].container],
     providers |-> state.dicts[state.ctxs[r].providers],
     contexts |-> state.lists[state.ctxs[r].contexts]]

\* what require(key) returns on the Context of request r
Requires(cfg, state, r, key) ==
    requireIn(cfg, Holds(state, r).container, Holds(state, r).providers,
              key).result

\* the step is an operation on the Context of request r
ActsOn(r) ==
    \/ AppContext(r)
    \/ \E v \in Values : ProvideOn(r, KeyDb, v, NoCtor, FALSE)
    \/ \E c \in Ctors : ProvideOn(r, KeyDb, None, c, TRUE)
    \/ \E key \in {KeyDb, KeyConfigX} : RequireOn(r, key)
    \/ EnterOn(r)
    \/ ExitOn(r)

\* C16: an operation on one Context leaves every other Context's container,
\* lazy providers and participants as they were, leaves what require returns
\* on it for every key as it was, and leaves the shared configuration as it
\* was.
C16_StepIsolated ==
    \A r \in Requests :
        ActsOn(r) =>
            /\ config' = config
            /\ \A d \in DOMAIN cs.ctxs \ {r} :
                  /\ Holds(cs', d) = Holds(cs, d)
                  /\ \A key \in Keys :
                        Requires(config', cs', d, key) =
                            Requires(config, cs, d, key)

C16_ContextsIsolated == [][C16_StepIsolated]_vars

\* two Contexts that hold different values for 'db' while one is entered
\* and the other is not
C16_Witness ==
    /\ DOMAIN cs.ctxs = Requests
    /\ KeyDb \in DOMAIN Holds(cs, "r1").container
    /\ KeyDb \in DOMAIN Holds(cs, "r2").container
    /\ Holds(cs, "r1").container[KeyDb] # Holds(cs, "r2").container[KeyDb]
    /\ InState(Holds(cs, "r1").contexts, "suspended") # {}
    /\ InState(Holds(cs, "r2").contexts, "created") # {}

====
